---- MODULE Spec2Model ----
(***************************************************************************)
(* Crossword placement-and-validation engine of lojra-logjike.             *)
(*                                                                         *)
(* Spec      : tools/wordle/auto_crossword.py, one generate_puzzle call    *)
(*             followed by the driver's format_puzzle emission.            *)
(* SpecPlace : try_place / place_word applied to drawn inputs.             *)
(* SpecScan  : find_all_runs / check_no_ghosts applied to drawn grids.     *)
(* SpecBuild : grid evolution of the three puzzle builders.                *)
(*                                                                         *)
(* Python lists are modelled 0-based where they are grids (functions over  *)
(* 0..size-1) and as TLA+ sequences where they are words and word lists    *)
(* (letter i of the code is word[i+1]).                                    *)
(***************************************************************************)
EXTENDS Integers, Sequences, FiniteSets, TLC

VARIABLES
    size,            \* grid size N (parameter `size`, module constant GRID_SIZE)
    word_pool,       \* generate_puzzle: the caller's pool list (shuffled in place)
    min_words,       \* generate_puzzle parameter
    min_letters,     \* generate_puzzle parameter
    max_attempts,    \* generate_puzzle parameter
    attempt,         \* index of the running attempt (for attempt in range(max_attempts))
    grid,            \* the attempt's grid / the caller's grid of a single call
    word_set,        \* set of word texts placed in this attempt
    placed,          \* ordered list of placements (word, row, col, direction)
    remaining,       \* list iterated by the current pass
    idx,             \* number of entries of `remaining` (of the plan) already iterated
    still_remaining, \* words deferred to the next pass
    pass_num,        \* index of the running pass (for pass_num in range(3))
    best,            \* best (grid, placed) so far, or None
    best_score,      \* score of best
    emitted,         \* what the driver emitted for this configuration
    cfg,             \* the DAY_CONFIGS entry being generated
    gen_call,        \* 1: first generate_puzzle call, 2: the call with lower requirements
    call,            \* arguments of the single call under test (SpecPlace, SpecScan)
    result,          \* value returned / raised by the call under test
    pool,            \* generate_puzzles.generate_puzzle: the attempt's shuffled copy
    failures,        \* generate_puzzles.generate_puzzle: counter of the while loop
    tried,           \* generate_puzzles.generate_puzzle: words tried since the last success
    words,           \* build_puzzles: the word records committed so far
    attempt_log,     \* history: what line 202-204 computed for each attempt scored in this call
    not_retried,     \* history: words deferred at line 199 before the pass's latest commit, not tried since
    pc               \* control position

vars == <<size, word_pool, min_words, min_letters, max_attempts, attempt, grid,
          word_set, placed, remaining, idx, still_remaining, pass_num, best,
          best_score, emitted, cfg, gen_call, call, result, pool, failures, tried,
          words, attempt_log, not_retried, pc>>

cfgVars == <<cfg, size, min_words, min_letters, max_attempts>>
attemptVars == <<grid, word_set, placed, remaining, idx, still_remaining, pass_num>>
gpVars == <<pool, failures, tried>>
layoutVars == <<words>>

--------------------------------------------------------------------------
(* Bounds of the model *)

\* grid size used by the search configurations
GenSize == 4
\* grid size used for single calls of try_place / place_word
OpSize == 3
\* grid size used for single calls of the scanners and ghost checks
ScanSize == 5
\* how far below 0 an anchor coordinate of a single call may lie
MaxNeg == 2

--------------------------------------------------------------------------
(* Letters, words, grids *)

X == "X"
Letters == {"A", "B"}
HORIZONTAL == "horizontal"
VERTICAL == "vertical"
Directions == <<HORIZONTAL, VERTICAL>>
None == [ret |-> "None"]

Idx(n) == 0..(n - 1)

make_grid(n) == [r \in Idx(n) |-> [c \in Idx(n) |-> X]]

\* copy_grid returns a new outer list of new row lists: writes through the
\* copy reach no list of the original (fresh). The variant before it stands
\* for a copy that shares its rows with the original.
copy_grid_shallow(g) == [fresh |-> FALSE, cells |-> g]
copy_grid(g) ==
    [fresh |-> TRUE, cells |-> [r \in DOMAIN g |-> [c \in DOMAIN g[r] |-> g[r][c]]]]

count_letters(g) ==
    Cardinality({rc \in (DOMAIN g) \X (DOMAIN g) : g[rc[1]][rc[2]] # X})

\* Python list indexing: -n..-1 wrap around, anything else outside 0..n-1 raises.
PyIndexable(i, n) == i >= 0 - n /\ i < n
PyIndex(i, n) == IF i < 0 THEN i + n ELSE i

\* the entries of a list, as a set
Members(list) == {list[k] : k \in 1..Len(list)}

\* a list with Op applied to every entry
Mapped(list, Op(_)) == [k \in DOMAIN list |-> Op(list[k])]

\* target cell of letter index i (0-based) of a placement
CellRow(row, i, direction) == row + (IF direction = VERTICAL THEN i ELSE 0)
CellCol(col, i, direction) == col + (IF direction = HORIZONTAL THEN i ELSE 0)

--------------------------------------------------------------------------
(* Grid model: the placement loop shared by try_place and place_word *)

\* the test of auto_crossword.py line 97 / build_puzzles.py line 30, after
\* two variants of it: one that never finds a conflict, one that takes every
\* letter already on the grid for a conflict
LetterConflictIgnored(existing, ch) == FALSE
LetterConflictStrict(existing, ch) == existing # X
LetterConflict(existing, ch) == existing # X /\ existing # ch

\* the test of auto_crossword.py line 95 / build_puzzles.py line 28
OutOfBounds(r, c, n) == r >= n \/ c >= n

\* for i, ch in enumerate(word): ... ; g is the list the loop writes into.
\* exit: "end" (loop ran to completion), "bounds", "conflict", or "IndexError"
\* (a coordinate below -n, raised by g[r][c]); g: the written list at exit.
RECURSIVE PlaceLoop(_, _, _, _, _, _, _)
PlaceLoop(g, word, i, row, col, direction, n) ==
    IF i >= Len(word) THEN [exit |-> "end", g |-> g]
    ELSE LET r == CellRow(row, i, direction)
             c == CellCol(col, i, direction)
             ch == word[i + 1]
         IN IF OutOfBounds(r, c, n) THEN [exit |-> "bounds", g |-> g]
            ELSE IF ~(PyIndexable(r, n) /\ PyIndexable(c, n))
                 THEN [exit |-> "IndexError", g |-> g]
            ELSE LET rr == PyIndex(r, n)
                     cc == PyIndex(c, n)
                 IN IF LetterConflict(g[rr][cc], ch)
                    THEN [exit |-> "conflict", g |-> g]
                    ELSE PlaceLoop([g EXCEPT ![rr][cc] = ch], word, i + 1,
                                   row, col, direction, n)

\* A call of try_place / place_word (copying variants): ret is what the call
\* returns ("grid" with the new grid g, "None", or the raised "IndexError");
\* caller is the value of the caller's g0 object after the call.
PlaceCopying(w, g0, word, row, col, direction, n) ==
    LET out == PlaceLoop(w.cells, word, 0, row, col, direction, n)
        after == IF w.fresh THEN g0 ELSE out.g
    IN CASE out.exit = "end" -> [ret |-> "grid", g |-> out.g, caller |-> after]
         [] out.exit = "IndexError" -> [ret |-> "IndexError", caller |-> after]
         [] OTHER -> [ret |-> "None", caller |-> after]

\* auto_crossword.try_place(g0, word, row, col, direction, size)
try_place_call(g0, word, row, col, direction, n) ==
    PlaceCopying(copy_grid(g0), g0, word, row, col, direction, n)

\* build_puzzles.place_word(g0, word, row, col, direction), GRID_SIZE = n
place_word_call(g0, word, row, col, direction, n) ==
    PlaceCopying(copy_grid(g0), g0, word, row, col, direction, n)

\* the value try_place returns, as the search uses it
try_place(g0, word, row, col, direction, n) ==
    LET out == try_place_call(g0, word, row, col, direction, n)
    IN IF out.ret = "grid" THEN [ret |-> "grid", g |-> out.g] ELSE [ret |-> out.ret]

\* (after a variant that finds a shared cell everywhere, and one that looks
\* at the first letter's cell only)
word_shares_cell_anywhere(g0, word, row, col, direction, n) == TRUE
word_shares_cell_first(g0, word, row, col, direction, n) ==
    row < n /\ col < n /\ PyIndexable(row, n) /\ PyIndexable(col, n)
    /\ g0[PyIndex(row, n)][PyIndex(col, n)] # X
word_shares_cell(g0, word, row, col, direction, n) ==
    \E i \in 0..(Len(word) - 1) :
        LET r == CellRow(row, i, direction)
            c == CellCol(col, i, direction)
        IN r < n /\ c < n /\ PyIndexable(r, n) /\ PyIndexable(c, n)
           /\ g0[PyIndex(r, n)][PyIndex(c, n)] # X

--------------------------------------------------------------------------
(* Run scanner *)

MinRunLen == 2

\* inner while: first index >= c that is outside the line or empty
RECURSIVE RunEnd(_, _, _)
RunEnd(line, c, n) ==
    IF c < n /\ line[c] # X THEN RunEnd(line, c + 1, n) ELSE c

\* outer while over one row or column, from index c on: (text, start) pairs
RECURSIVE ScanLine(_, _, _)
ScanLine(line, c, n) ==
    IF c >= n THEN <<>>
    ELSE IF line[c] # X
         THEN LET e == RunEnd(line, c, n)
                  s == [k \in 1..(e - c) |-> line[c + k - 1]]
              IN (IF e - c >= MinRunLen THEN <<<<s, c>>>> ELSE <<>>)
                 \o ScanLine(line, e, n)
         ELSE ScanLine(line, c + 1, n)

\* the cells grid[0][c] .. grid[n-1][c] the second loop walks down (after a
\* variant that walks along row c instead)
ColumnAsRow(g, c, n) == g[c]
Column(g, c, n) == [r \in Idx(n) |-> g[r][c]]

\* the rows' scans one after the other (for r in range(size)), then the
\* columns' (for c in range(size)): (text, line index, start, direction)
RECURSIVE LinesFrom(_, _, _, _)
LinesFrom(g, k, n, direction) ==
    IF k >= n THEN <<>>
    ELSE LET line == IF direction = HORIZONTAL THEN g[k] ELSE Column(g, k, n)
             Tag(run) == <<run[1], k, run[2], direction>>
         IN Mapped(ScanLine(line, 0, n), Tag) \o LinesFrom(g, k + 1, n, direction)

\* auto_crossword.find_all_runs / build_puzzles.find_all_runs: texts only
Text(run) == run[1]
find_all_runs(g, n) ==
    Mapped(LinesFrom(g, 0, n, HORIZONTAL) \o LinesFrom(g, 0, n, VERTICAL), Text)

\* the scanners that record positions (clean_placed_words, quick_validate):
\* (text, row, col, direction)
Located(run) ==
    IF run[4] = HORIZONTAL THEN run ELSE <<run[1], run[3], run[2], run[4]>>
LocatedRuns(g, n) ==
    Mapped(LinesFrom(g, 0, n, HORIZONTAL) \o LinesFrom(g, 0, n, VERTICAL), Located)

--------------------------------------------------------------------------
(* Validity oracle *)

is_valid_after_placement(g, ws, n) ==
    \A run \in Members(find_all_runs(g, n)) : run \in ws

\* build_puzzles.check_no_ghosts: (True, None) or (False, first run not in ws),
\* after a variant that reports the last such run
check_no_ghosts_last(g, ws, n) ==
    LET runs == find_all_runs(g, n)
        bad == {k \in 1..Len(runs) : runs[k] \notin ws}
    IN IF bad = {} THEN [ok |-> TRUE]
       ELSE [ok |-> FALSE, ghost |-> runs[CHOOSE k \in bad : \A j \in bad : j <= k]]
check_no_ghosts(g, ws, n) ==
    LET runs == find_all_runs(g, n)
        bad == {k \in 1..Len(runs) : runs[k] \notin ws}
    IN IF bad = {} THEN [ok |-> TRUE]
       ELSE [ok |-> FALSE, ghost |-> runs[CHOOSE k \in bad : \A j \in bad : k <= j]]

\* cells of a placement (w, r, c, d)
WordCells(p) ==
    {<<CellRow(p[2], i, p[4]), CellCol(p[3], i, p[4])>> : i \in 0..(Len(p[1]) - 1)}

\* adj[i] of check_connectivity, over 1-based indices of the list (after a
\* variant that also links placements with neighbouring cells)
AdjacentOrTouching(list, i) ==
    {j \in 1..Len(list) :
        j # i /\ \E a \in WordCells(list[i]), b \in WordCells(list[j]) :
                    a[1] - b[1] \in -1..1 /\ a[2] - b[2] \in -1..1}
Adjacent(list, i) ==
    {j \in 1..Len(list) : j # i /\ WordCells(list[i]) \cap WordCells(list[j]) # {}}

RECURSIVE SetToList(_)
SetToList(S) ==
    IF S = {} THEN <<>>
    ELSE LET m == CHOOSE a \in S : \A b \in S : a <= b
         IN <<m>> \o SetToList(S \ {m})

\* the while-queue loop: visited set when the queue has run empty
RECURSIVE Visit(_, _, _)
Visit(list, visited, queue) ==
    IF queue = <<>> THEN visited
    ELSE LET fresh == Adjacent(list, Head(queue)) \ visited
         IN Visit(list, visited \cup fresh, Tail(queue) \o SetToList(fresh))

check_connectivity(list) ==
    IF Len(list) <= 1 THEN TRUE
    ELSE Cardinality(Visit(list, {1}, <<1>>)) = Len(list)

--------------------------------------------------------------------------
(* Placement search: auto_crossword.py *)

\* the (r, c, direction) triples in the order the three nested loops visit them
Positions(w, direction, n) ==
    LET max_r == n - (IF direction = VERTICAL THEN Len(w) ELSE 1)
        max_c == n - (IF direction = HORIZONTAL THEN Len(w) ELSE 1)
        rows == max_r + 1
        cols == max_c + 1
    IN IF rows <= 0 \/ cols <= 0 THEN <<>>
       ELSE [k \in 1..(rows * cols) |-> <<(k - 1) \div cols, (k - 1) % cols, direction>>]

\* the loop body of find_all_placements for positions[k..]: the entries
\* (r, c, direction, new_grid) appended, in order
RECURSIVE PlacementsFrom(_, _, _, _, _, _)
PlacementsFrom(g0, w, ws, n, positions, k) ==
    IF k > Len(positions) THEN <<>>
    ELSE LET pos == positions[k]
             new_grid == try_place(g0, w, pos[1], pos[2], pos[3], n)
             entry ==
                IF new_grid.ret # "grid" THEN <<>>
                ELSE IF count_letters(g0) > 0
                        /\ ~word_shares_cell(g0, w, pos[1], pos[2], pos[3], n)
                THEN <<>>
                ELSE IF is_valid_after_placement(new_grid.g, ws \cup {w}, n)
                THEN <<<<pos[1], pos[2], pos[3], new_grid.g>>>>
                ELSE <<>>
         IN entry \o PlacementsFrom(g0, w, ws, n, positions, k + 1)

\* list of (r, c, direction, new_grid)
find_all_placements(g0, w, ws, n) ==
    PlacementsFrom(g0, w, ws, n,
                   Positions(w, HORIZONTAL, n) \o Positions(w, VERTICAL, n), 1)

\* random.shuffle(list): any reordering
Shuffles(list) ==
    {[i \in 1..Len(list) |-> list[p[i]]] : p \in Permutations(1..Len(list))}

\* the passes of the growth phase: for pass_num in range(3)
PASSES == 3

\* max(a, b) of Python
Max(a, b) == IF a >= b THEN a ELSE b

\* clean_placed_words: the set actual_runs built by its two scanning loops
actual_runs(g0, n) == Members(LocatedRuns(g0, n))

\* the filtering loop of clean_placed_words over list[k..], used_runs = used
RECURSIVE CleanFrom(_, _, _, _)
CleanFrom(list, k, runs, used) ==
    IF k > Len(list) THEN <<>>
    ELSE IF list[k] \in runs /\ list[k] \notin used
         THEN <<list[k]>> \o CleanFrom(list, k + 1, runs, used \cup {list[k]})
         ELSE CleanFrom(list, k + 1, runs, used)

clean_placed_words(g0, list, n) == CleanFrom(list, 1, actual_runs(g0, n), {})

\* format_puzzle: (grid, words) with words as word/row/col/direction records
format_puzzle(g0, list, n) ==
    LET clean == clean_placed_words(g0, list, n)
    IN [grid |-> g0,
        words |-> [k \in 1..Len(clean) |->
                      [word |-> clean[k][1], row |-> clean[k][2],
                       col |-> clean[k][3], direction |-> clean[k][4]]]]

--------------------------------------------------------------------------
(* Configurations: the word pools and DAY_CONFIGS, scaled to GenSize *)

AB == <<"A", "B">>
BB == <<"B", "B">>
ABA == <<"A", "B", "A">>
ABB == <<"A", "B", "B">>
BAA == <<"B", "A", "A">>
BAB == <<"B", "A", "B">>
\* a word one letter longer than the grid is wide
TooLong == [i \in 1..(GenSize + 1) |-> IF i % 2 = 1 THEN "A" ELSE "B"]

DAY_CONFIGS ==
    { [name |-> "four", size |-> GenSize, min_words |-> 2, min_letters |-> 4,
       attempts |-> 1, pool |-> <<AB, BB, ABB, BAA>>],
      [name |-> "single", size |-> GenSize, min_words |-> 3, min_letters |-> 3,
       attempts |-> 1, pool |-> <<ABA>>],
      [name |-> "long", size |-> GenSize, min_words |-> 2, min_letters |-> 5,
       attempts |-> 2, pool |-> <<TooLong, ABA, BAB>>],
      [name |-> "pair", size |-> GenSize, min_words |-> 2, min_letters |-> 3,
       attempts |-> 2, pool |-> <<AB, BB, ABA>>],
      [name |-> "twice", size |-> GenSize, min_words |-> 2, min_letters |-> 4,
       attempts |-> 1, pool |-> <<AB, ABA, AB>>] }

--------------------------------------------------------------------------
(* generate_puzzle and the module-level generation loop, as actions *)

NoCall == [op |-> "none"]
NotEmitted == [status |-> "none"]

\* values of the variables of the other two builders while they do not run
BuildersIdle ==
    /\ pool = <<>>
    /\ failures = 0
    /\ tried = {}
    /\ words = <<>>

\* generate_puzzle is about to be called for the configuration cfg
SearchStart ==
    /\ size = cfg.size
    /\ word_pool = cfg.pool
    /\ min_words = cfg.min_words
    /\ min_letters = cfg.min_letters
    /\ max_attempts = cfg.attempts
    /\ gen_call = 1
    /\ attempt = 0
    /\ best = None
    /\ attempt_log = <<>>
    /\ not_retried = {}
    /\ best_score = 0
    /\ grid = make_grid(size)
    /\ word_set = {}
    /\ placed = <<>>
    /\ remaining = <<>>
    /\ idx = 0
    /\ still_remaining = <<>>
    /\ pass_num = 0
    /\ emitted = NotEmitted
    /\ call = NoCall
    /\ result = None
    /\ BuildersIdle
    /\ pc = "for_attempt"

Init ==
    /\ cfg \in DAY_CONFIGS
    /\ SearchStart

\* lines 163-180: shuffle the pool, make the grid, seed the first word
BeginAttempt ==
    /\ pc = "for_attempt"
    /\ attempt < max_attempts
    /\ \E shuffled \in Shuffles(word_pool) :
        LET first == shuffled[1]
            r == size \div 2
            c == Max(0, (size - Len(first)) \div 2)
            seeded == try_place(make_grid(size), first, r, c, HORIZONTAL, size)
        IN /\ word_pool' = shuffled
           /\ still_remaining' = still_remaining
           /\ idx' = idx
           /\ IF seeded.ret = "None"
              THEN /\ grid' = None
                   /\ word_set' = {}
                   /\ placed' = <<>>
                   /\ attempt' = attempt + 1
                   /\ UNCHANGED <<remaining, pass_num, pc>>
              ELSE /\ grid' = seeded.g
                   /\ word_set' = {first}
                   /\ placed' = <<<<first, r, c, HORIZONTAL>>>>
                   /\ remaining' = SelectSeq(Tail(shuffled), LAMBDA w : w # first)
                   /\ pass_num' = 0
                   /\ pc' = "for_pass"
                   /\ UNCHANGED attempt
    /\ UNCHANGED <<gpVars, layoutVars, attempt_log, not_retried, cfgVars, gen_call, best, best_score, emitted, call, result>>

\* lines 183-185: start a pass over the remaining words
BeginPass ==
    /\ pc = "for_pass"
    /\ pass_num < PASSES
    /\ remaining' \in Shuffles(remaining)
    /\ still_remaining' = <<>>
    /\ not_retried' = {}
    /\ idx' = 0
    /\ pc' = "for_word"
    /\ UNCHANGED <<gpVars, layoutVars, attempt_log, cfgVars, word_pool, gen_call, attempt, grid, word_set, placed,
                   pass_num, best, best_score, emitted, call, result>>

\* lines 186-199: one iteration of `for word in remaining`
GrowStep ==
    /\ pc = "for_word"
    /\ idx < Len(remaining)
    /\ idx' = idx + 1
    /\ LET word == remaining[idx + 1]
       IN IF word \in word_set
          THEN UNCHANGED <<grid, word_set, placed, still_remaining, not_retried>>
          ELSE IF Len(word) > size
          THEN /\ still_remaining' = Append(still_remaining, word)
               /\ UNCHANGED <<grid, word_set, placed, not_retried>>
          ELSE LET placements == find_all_placements(grid, word, word_set, size)
               IN IF placements # <<>>
                  THEN \E p \in Members(placements) :
                          /\ grid' = p[4]
                          /\ word_set' = word_set \cup {word}
                          /\ placed' = Append(placed, <<word, p[1], p[2], p[3]>>)
                          /\ not_retried' =
                                {w \in Members(still_remaining) : Len(w) <= size} \ {word}
                          /\ UNCHANGED still_remaining
                  ELSE /\ still_remaining' = Append(still_remaining, word)
                       /\ not_retried' = not_retried \ {word}
                       /\ UNCHANGED <<grid, word_set, placed>>
    /\ UNCHANGED <<gpVars, layoutVars, attempt_log, cfgVars, word_pool, gen_call, attempt, remaining, pass_num,
                   best, best_score, emitted, call, result, pc>>

\* line 200: the pass is over, the deferred words become the next pass's list
EndPass ==
    /\ pc = "for_word"
    /\ idx >= Len(remaining)
    /\ remaining' = still_remaining
    /\ pass_num' = pass_num + 1
    /\ pc' = "for_pass"
    /\ UNCHANGED <<gpVars, layoutVars, attempt_log, not_retried, cfgVars, word_pool, gen_call, attempt, grid, word_set, placed,
                   idx, still_remaining, best, best_score, emitted, call, result>>

\* the test of line 204 (after a variant that leaves out the word count)
meets_thresholds_letters_only(n_words, n_letters, connected) ==
    n_letters >= min_letters /\ connected
meets_thresholds(n_words, n_letters, connected) ==
    n_words >= min_words /\ n_letters >= min_letters /\ connected

\* the test of line 206 (after a variant that also lets an equal score win)
is_better_or_equal(score, current) == score >= current
is_better(score, current) == score > current

\* lines 202-211: score the attempt, keep it if it beats the best so far
ScoreAttempt ==
    /\ pc = "for_pass"
    /\ pass_num >= PASSES
    /\ LET n_words == Len(placed)
           n_letters == count_letters(grid)
           score == n_words * 10 + n_letters
       IN /\ attempt_log' = Append(attempt_log,
                                   [n_words |-> n_words, n_letters |-> n_letters,
                                    connected |-> check_connectivity(placed),
                                    score |-> score])
          /\ IF meets_thresholds(n_words, n_letters, check_connectivity(placed))
             THEN IF is_better(score, best_score)
                  THEN /\ best_score' = score
                       /\ best' = [ret |-> "puzzle", grid |-> grid, placed |-> placed]
                       /\ IF n_words >= min_words + 4
                          THEN /\ pc' = "return"
                               /\ UNCHANGED attempt
                          ELSE /\ pc' = "for_attempt"
                               /\ attempt' = attempt + 1
                  ELSE /\ pc' = "for_attempt"
                       /\ attempt' = attempt + 1
                       /\ UNCHANGED <<best, best_score>>
             ELSE /\ pc' = "for_attempt"
                  /\ attempt' = attempt + 1
                  /\ UNCHANGED <<best, best_score>>
    /\ UNCHANGED <<gpVars, layoutVars, not_retried, cfgVars, word_pool, gen_call, attemptVars, emitted, call, result>>

\* line 213 (after the loop ran out or hit the break of line 211): return best
ReturnBest ==
    /\ IF pc = "return" THEN TRUE ELSE pc = "for_attempt" /\ attempt >= max_attempts
    /\ result' = best
    /\ pc' = "driver"
    /\ UNCHANGED <<gpVars, layoutVars, attempt_log, not_retried, cfgVars, word_pool, gen_call, attempt, attemptVars, best,
                   best_score, emitted, call>>

\* lines 293-314 and 318-324: a result is formatted and appended to all_puzzles
DriverEmit ==
    /\ pc = "driver"
    /\ result.ret # "None"
    /\ LET out == format_puzzle(result.grid, result.placed, size)
       IN emitted' = [status |-> "puzzle", grid |-> out.grid, words |-> out.words]
    /\ pc' = "done"
    /\ UNCHANGED <<gpVars, layoutVars, attempt_log, not_retried, cfgVars, word_pool, gen_call, attempt, attemptVars, best,
                   best_score, call, result>>

\* lines 315-317: the first call failed, call again with lower requirements
DriverRetry ==
    /\ pc = "driver"
    /\ result.ret = "None"
    /\ gen_call = 1
    /\ gen_call' = 2
    /\ min_words' = Max(3, cfg.min_words - 3)
    /\ min_letters' = Max(12, cfg.min_letters - 10)
    /\ max_attempts' = cfg.attempts * 2
    /\ attempt' = 0
    /\ best' = None
    /\ best_score' = 0
    /\ attempt_log' = <<>>
    /\ pc' = "for_attempt"
    /\ UNCHANGED <<gpVars, layoutVars, not_retried, cfg, size, word_pool, attemptVars, emitted, call, result>>

\* lines 325-326: the second call failed too
DriverFail ==
    /\ pc = "driver"
    /\ result.ret = "None"
    /\ gen_call = 2
    /\ emitted' = [status |-> "failed"]
    /\ pc' = "done"
    /\ UNCHANGED <<gpVars, layoutVars, attempt_log, not_retried, cfgVars, word_pool, gen_call, attempt, attemptVars, best,
                   best_score, call, result>>

Next ==
    \/ BeginAttempt
    \/ BeginPass
    \/ GrowStep
    \/ EndPass
    \/ ScoreAttempt
    \/ ReturnBest
    \/ DriverEmit
    \/ DriverRetry
    \/ DriverFail

Spec == Init /\ [][Next]_vars

--------------------------------------------------------------------------
(* Single calls of try_place / place_word on drawn inputs *)

\* the words handed to single calls
OpWords == {<<"A">>, AB, BB, ABA}

\* the anchors handed to a single call on an n x n grid
Anchors(n) == (0 - MaxNeg)..n

\* the empty grid and every grid holding one word
OneWordGrids(n) ==
    {make_grid(n)} \cup
    {out.g : out \in {o \in {try_place(make_grid(n), w, rc[1], rc[2], d, n) :
                                w \in OpWords, rc \in Idx(n) \X Idx(n),
                                d \in {HORIZONTAL, VERTICAL}} : o.ret = "grid"}}

Pending == [ret |-> "pending"]

\* values of the variables no single call reads or writes
SearchIdle ==
    /\ cfg = [name |-> "none"]
    /\ word_pool = <<>>
    /\ min_words = 0
    /\ min_letters = 0
    /\ max_attempts = 0
    /\ gen_call = 0
    /\ attempt = 0
    /\ best = None
    /\ attempt_log = <<>>
    /\ not_retried = {}
    /\ best_score = 0
    /\ placed = <<>>
    /\ remaining = <<>>
    /\ idx = 0
    /\ still_remaining = <<>>
    /\ pass_num = 0
    /\ emitted = NotEmitted
    /\ BuildersIdle

InitPlace ==
    /\ SearchIdle
    /\ word_set = {}
    /\ size \in 1..OpSize
    /\ grid \in OneWordGrids(size)
    /\ \E op \in {"try_place", "place_word"}, w \in OpWords,
          r \in Anchors(size), c \in Anchors(size), d \in {HORIZONTAL, VERTICAL} :
          call = [op |-> op, grid |-> grid, word |-> w, row |-> r, col |-> c,
                  direction |-> d]
    /\ result = Pending
    /\ pc = "call"

\* what a finished call hands back: the returned grid, None, or the exception
Returned(out) ==
    IF out.ret = "grid" THEN [ret |-> "grid", g |-> out.g] ELSE [ret |-> out.ret]

\* auto_crossword.try_place(grid, word, row, col, direction, size)
TryPlaceCall ==
    /\ pc = "call"
    /\ call.op = "try_place"
    /\ LET out == try_place_call(grid, call.word, call.row, call.col,
                                 call.direction, size)
       IN /\ grid' = out.caller
          /\ result' = Returned(out)
    /\ pc' = "returned"
    /\ UNCHANGED <<gpVars, layoutVars, attempt_log, not_retried, cfgVars, word_pool, gen_call, attempt, word_set, placed, remaining,
                   idx, still_remaining, pass_num, best, best_score, emitted, call>>

\* build_puzzles.place_word(grid, word, row, col, direction), GRID_SIZE = size
PlaceWordCall ==
    /\ pc = "call"
    /\ call.op = "place_word"
    /\ LET out == place_word_call(grid, call.word, call.row, call.col,
                                  call.direction, size)
       IN /\ grid' = out.caller
          /\ result' = Returned(out)
    /\ pc' = "returned"
    /\ UNCHANGED <<gpVars, layoutVars, attempt_log, not_retried, cfgVars, word_pool, gen_call, attempt, word_set, placed, remaining,
                   idx, still_remaining, pass_num, best, best_score, emitted, call>>

NextPlace == TryPlaceCall \/ PlaceWordCall

SpecPlace == InitPlace /\ [][NextPlace]_vars

\* the target cells of the call, by letter index
TargetRow(i) == CellRow(call.row, i, call.direction)
TargetCol(i) == CellCol(call.col, i, call.direction)
LetterIndices == 0..(Len(call.word) - 1)
InBoundsCall ==
    \A i \in LetterIndices :
        TargetRow(i) \in Idx(size) /\ TargetCol(i) \in Idx(size)

C5_BoundsRejection ==
    (/\ pc = "returned"
     /\ call.op = "try_place"
     /\ ~InBoundsCall)
    => result.ret = "None"

\* C6: an in-bounds try_place returns None when a target cell holds a letter
\* different from the word's letter for it, and no returned grid has a letter
\* of the input grid overwritten by a different value.
C6_ConflictRejection ==
    (pc = "returned" /\ call.op = "try_place") =>
        /\ (/\ InBoundsCall
            /\ \E i \in LetterIndices :
                  /\ call.grid[TargetRow(i)][TargetCol(i)] # X
                  /\ call.grid[TargetRow(i)][TargetCol(i)] # call.word[i + 1])
           => result.ret = "None"
        /\ result.ret = "grid" =>
              \A r \in Idx(size), c \in Idx(size) :
                  call.grid[r][c] # X => result.g[r][c] = call.grid[r][c]

\* an in-bounds call rejected for a conflict found after a matching letter
C6_Witness ==
    /\ pc = "returned"
    /\ call.op = "try_place"
    /\ InBoundsCall
    /\ result.ret = "None"
    /\ Len(call.word) >= 2
    /\ call.grid[TargetRow(0)][TargetCol(0)] = call.word[1]
    /\ \E i \in LetterIndices :
          /\ call.grid[TargetRow(i)][TargetCol(i)] # X
          /\ call.grid[TargetRow(i)][TargetCol(i)] # call.word[i + 1]

\* C7: an in-bounds placement whose target cells all hold the word's letters
\* already succeeds and returns a grid equal to the input grid; a successful
\* placement applied to its own result returns that result again.
C7_PlacementIdempotent ==
    pc = "returned" =>
        /\ (/\ InBoundsCall
            /\ \A i \in LetterIndices :
                  call.grid[TargetRow(i)][TargetCol(i)] = call.word[i + 1])
           => (result.ret = "grid" /\ result.g = call.grid)
        /\ result.ret = "grid" =>
              LET again == IF call.op = "try_place"
                           THEN try_place_call(result.g, call.word, call.row, call.col,
                                               call.direction, size)
                           ELSE place_word_call(result.g, call.word, call.row, call.col,
                                                call.direction, size)
              IN again.ret = "grid" /\ again.g = result.g

\* a word of two or more letters placed again exactly where it already lies
C7_Witness ==
    /\ pc = "returned"
    /\ InBoundsCall
    /\ Len(call.word) >= 2
    /\ \A i \in LetterIndices :
          call.grid[TargetRow(i)][TargetCol(i)] = call.word[i + 1]
    /\ result.ret = "grid"

--------------------------------------------------------------------------
(* Single calls of the run scanners and ghost checks on drawn grids *)

\* validate_puzzles.find_all_runs: a record per run, "H" runs then "V" runs
RunRecord(run) ==
    IF run[4] = HORIZONTAL
    THEN [text |-> run[1], row |-> run[2], col |-> run[3], dir |-> "H", len |-> Len(run[1])]
    ELSE [text |-> run[1], row |-> run[3], col |-> run[2], dir |-> "V", len |-> Len(run[1])]
find_all_runs_records(g, n) ==
    Mapped(LinesFrom(g, 0, n, HORIZONTAL) \o LinesFrom(g, 0, n, VERTICAL), RunRecord)

\* every grid holding up to two words laid over each other
TwoWordGrids(n) ==
    OneWordGrids(n) \cup
    {out.g : out \in {o \in {try_place(g1, w, rc[1], rc[2], d, n) :
                                g1 \in OneWordGrids(n), w \in OpWords,
                                rc \in Idx(n) \X Idx(n),
                                d \in {HORIZONTAL, VERTICAL}} : o.ret = "grid"}}

\* the word sets handed to the ghost checks
ScanWordSets == {{ABA}, {AB, ABA}, {AB, BB, ABA}}

InitScan ==
    /\ SearchIdle
    /\ size \in 1..ScanSize
    /\ grid \in TwoWordGrids(size)
    /\ \E op \in {"find_all_runs", "find_all_runs_records", "check_no_ghosts",
                  "is_valid_after_placement"} :
          /\ call = [op |-> op, grid |-> grid]
          /\ IF op \in {"check_no_ghosts", "is_valid_after_placement"}
             THEN word_set \in ScanWordSets
             ELSE word_set = {}
    /\ result = Pending
    /\ pc = "call"

scanUnchanged == <<gpVars, layoutVars, attempt_log, not_retried, cfgVars, word_pool, gen_call, attempt, grid, word_set, placed,
                   remaining, idx, still_remaining, pass_num, best, best_score,
                   emitted, call>>

\* auto_crossword.find_all_runs(grid, size)
FindAllRunsCall ==
    /\ pc = "call"
    /\ call.op = "find_all_runs"
    /\ result' = [ret |-> "runs", runs |-> find_all_runs(grid, size)]
    /\ pc' = "returned"
    /\ UNCHANGED scanUnchanged

\* validate_puzzles.find_all_runs(grid), GRID_SIZE = size
FindAllRunsRecordsCall ==
    /\ pc = "call"
    /\ call.op = "find_all_runs_records"
    /\ result' = [ret |-> "runs", runs |-> find_all_runs_records(grid, size)]
    /\ pc' = "returned"
    /\ UNCHANGED scanUnchanged

\* build_puzzles.check_no_ghosts(grid, word_set), GRID_SIZE = size
CheckNoGhostsCall ==
    /\ pc = "call"
    /\ call.op = "check_no_ghosts"
    /\ result' = [ret |-> "pair", pair |-> check_no_ghosts(grid, word_set, size)]
    /\ pc' = "returned"
    /\ UNCHANGED scanUnchanged

\* auto_crossword.is_valid_after_placement(grid, word_set, size)
IsValidCall ==
    /\ pc = "call"
    /\ call.op = "is_valid_after_placement"
    /\ result' = [ret |-> "bool", ok |-> is_valid_after_placement(grid, word_set, size)]
    /\ pc' = "returned"
    /\ UNCHANGED scanUnchanged

NextScan == FindAllRunsCall \/ FindAllRunsRecordsCall \/ CheckNoGhostsCall \/ IsValidCall

SpecScan == InitScan /\ [][NextScan]_vars

\* The maximal runs of a grid, stated cell by cell: (row, col, length,
\* direction) such that (row, col) holds a letter, the cell just before it is
\* empty or off the grid, the length >= 2 cells from (row, col) on all hold a
\* letter and the cell just after them is empty or off the grid.
Holds(g, n, r, c) == r \in Idx(n) /\ c \in Idx(n) /\ g[r][c] # X
RunCell(run, k) ==
    IF run[4] = HORIZONTAL THEN <<run[1], run[2] + k>> ELSE <<run[1] + k, run[2]>>
IsMaximalRun(g, n, run) ==
    /\ run[3] >= 2
    /\ \A k \in 0..(run[3] - 1) : Holds(g, n, RunCell(run, k)[1], RunCell(run, k)[2])
    /\ ~Holds(g, n, RunCell(run, 0 - 1)[1], RunCell(run, 0 - 1)[2])
    /\ ~Holds(g, n, RunCell(run, run[3])[1], RunCell(run, run[3])[2])
\* the cells where a run of some length may start, in either direction
RunStarts(g, n) ==
    {s \in Idx(n) \X Idx(n) \X {HORIZONTAL, VERTICAL} :
        /\ g[s[1]][s[2]] # X
        /\ ~Holds(g, n, RunCell(<<s[1], s[2], 1, s[3]>>, 0 - 1)[1],
                        RunCell(<<s[1], s[2], 1, s[3]>>, 0 - 1)[2])}
MaximalRuns(g, n) ==
    {run \in {<<s[1], s[2], len, s[3]>> : s \in RunStarts(g, n), len \in 2..n} :
        IsMaximalRun(g, n, run)}
RunText(g, run) ==
    [k \in 1..run[3] |-> g[RunCell(run, k - 1)[1]][RunCell(run, k - 1)[2]]]
\* rank in the required order: rows top to bottom and left to right, then
\* columns left to right and top to bottom
RunRank(n, run) ==
    IF run[4] = HORIZONTAL THEN run[1] * n + run[2]
    ELSE n * n + run[2] * n + run[1]
RECURSIVE Ranked(_, _)
Ranked(n, S) ==
    IF S = {} THEN <<>>
    ELSE LET m == CHOOSE a \in S : \A b \in S : RunRank(n, a) <= RunRank(n, b)
         IN <<m>> \o Ranked(n, S \ {m})
ExpectedRuns(g, n) == Ranked(n, MaximalRuns(g, n))
TextOf(run) == RunText(grid, run)
RecordOf(run) ==
    [text |-> RunText(grid, run), row |-> run[1], col |-> run[2],
     dir |-> IF run[4] = HORIZONTAL THEN "H" ELSE "V", len |-> run[3]]

\* C9: find_all_runs returns exactly the maximal runs of length >= 2, each
\* once, horizontal runs in row-major order and then vertical runs in
\* column-major order (with their start and orientation where recorded).
C9_RunScanner ==
    (pc = "returned" /\ call.op \in {"find_all_runs", "find_all_runs_records"}) =>
        \A expected \in {ExpectedRuns(grid, size)} :
            IF call.op = "find_all_runs"
            THEN result.runs = Mapped(expected, TextOf)
            ELSE result.runs = Mapped(expected, RecordOf)

\* a scanned grid with two separate runs in one row, both reported
C9_Witness ==
    /\ pc = "returned"
    /\ call.op = "find_all_runs"
    /\ \E r \in Idx(size) :
          Cardinality({run \in MaximalRuns(grid, size) :
                          run[4] = HORIZONTAL /\ run[1] = r}) >= 2
    /\ Len(result.runs) = 2

\* the runs of S whose text is not in word_set, and the verdict they call for
GhostRuns(S) == {run \in S : RunText(grid, run) \notin word_set}
ExpectedVerdict(ghosts) ==
    IF ghosts = {} THEN [ok |-> TRUE]
    ELSE [ok |-> FALSE,
          ghost |-> RunText(grid, CHOOSE a \in ghosts :
                                     \A b \in ghosts : RunRank(size, a) <= RunRank(size, b))]

\* C10: check_no_ghosts returns (True, None) exactly when every run's whole
\* text is a member of word_set, and otherwise (False, g) with g the first
\* non-member run in scan order; is_valid_after_placement returns the same
\* verdict.
C10_GhostCheck ==
    (pc = "returned" /\ call.op \in {"check_no_ghosts", "is_valid_after_placement"}) =>
        \A ghosts \in {GhostRuns(MaximalRuns(grid, size))} :
            IF call.op = "is_valid_after_placement"
            THEN result.ok = (ghosts = {})
            ELSE result.pair = ExpectedVerdict(ghosts)

\* a grid with two different ghosts, the first a proper prefix of a member
C10_Witness ==
    /\ pc = "returned"
    /\ call.op = "check_no_ghosts"
    /\ result.pair.ok = FALSE
    /\ Cardinality({t \in Members(find_all_runs(grid, size)) : t \notin word_set}) >= 2
    /\ \E w \in word_set :
          /\ Len(w) > Len(result.pair.ghost)
          /\ SubSeq(w, 1, Len(result.pair.ghost)) = result.pair.ghost

--------------------------------------------------------------------------
(* Emitted puzzles *)

\* an emitted word record as the (word, row, col, direction) tuple of line 309
AsPlacement(w) == <<w.word, w.row, w.col, w.direction>>

EmittedPlacements == Mapped(emitted.words, AsPlacement)

\* the placements reachable from list[1] over shared cells
RECURSIVE Component(_, _)
Component(list, S) ==
    LET T == S \cup {j \in 1..Len(list) :
                        \E i \in S : WordCells(list[i]) \cap WordCells(list[j]) # {}}
    IN IF T = S THEN S ELSE Component(list, T)

GraphConnected(list) == Component(list, {1}) = 1..Len(list)

\* C1: in every emitted puzzle the texts of the grid's runs of length >= 2
\* are exactly the texts of the emitted words, and every emitted word is the
\* run at its recorded row, column and orientation.
C1_NoGhostInEmitted ==
    emitted.status = "puzzle" =>
        LET runs == LocatedRuns(emitted.grid, size)
        IN /\ {run[1] : run \in Members(runs)} = {p[1] : p \in Members(EmittedPlacements)}
           /\ \A p \in Members(EmittedPlacements) : p \in Members(runs)

\* C2: in every emitted puzzle with at least 2 words the graph over the
\* emitted placements (edges = shared cells) is connected.
C2_EmittedConnected ==
    (emitted.status = "puzzle" /\ Len(emitted.words) >= 2) =>
        GraphConnected(EmittedPlacements)

\* C3: when a placement A handed to clean_placed_words lies strictly inside
\* a longer run R of the grid whose text is a different word B, the cleaned
\* list has B at R's position and orientation and has not A.
C3_SubsumptionCleanup ==
    emitted.status = "puzzle" =>
        \A A \in Members(result.placed) :
            \A R \in actual_runs(result.grid, size) :
                (/\ WordCells(A) \subseteq WordCells(R)
                 /\ WordCells(A) # WordCells(R)
                 /\ R[1] # A[1]
                 /\ R[1] \in Members(word_pool))
                => /\ R \in Members(clean_placed_words(result.grid, result.placed, size))
                   /\ A \notin Members(clean_placed_words(result.grid, result.placed, size))

--------------------------------------------------------------------------
(* generate_puzzles.py: can_place, place_word, find_placements,          *)
(* validate_grid and one generate_puzzle call (GRID_SIZE = size)          *)

\* while len(placed) < 14 (line 168)
PLACED_CAP == 14
\* the seed word has len(w) >= 4 (line 148)
SEED_MIN_LEN == 4

empty_grid(n) == [r \in Idx(n) |-> [c \in Idx(n) |-> X]]

\* the elif of lines 44 and 69, reached when existing differs from ch (after
\* a variant that never takes the branch)
OccupiedNever(existing) == FALSE
Occupied(existing) == existing # X

\* can_place without the look at the side neighbours of a new letter
can_place_ignoring_sides(g, word, row, col, direction, n) ==
    LET length == Len(word)
        along == IF direction = HORIZONTAL THEN col ELSE row
        At(k) == IF direction = HORIZONTAL THEN g[row][col + k] ELSE g[row + k][col]
    IN /\ ~(along + length > n)
       /\ ~(along > 0 /\ At(0 - 1) # X)
       /\ ~(along + length < n /\ At(length) # X)
       /\ \A i \in 0..(length - 1) : At(i) = word[i + 1] \/ At(i) = X
       /\ \/ \E i \in 0..(length - 1) : At(i) = word[i + 1]
          \/ \A i \in 0..(length - 1) : At(i) = X

can_place(g, word, row, col, direction, n) ==
    LET length == Len(word)
        along == IF direction = HORIZONTAL THEN col ELSE row
        across == IF direction = HORIZONTAL THEN row ELSE col
        \* the cell at offset k along the word, and its two side neighbours
        At(k) == IF direction = HORIZONTAL THEN g[row][col + k] ELSE g[row + k][col]
        Before(k) == IF across > 0
                     THEN (IF direction = HORIZONTAL THEN g[row - 1][col + k]
                           ELSE g[row + k][col - 1])
                     ELSE X
        After(k) == IF across < n - 1
                    THEN (IF direction = HORIZONTAL THEN g[row + 1][col + k]
                          ELSE g[row + k][col + 1])
                    ELSE X
    IN /\ ~(along + length > n)
       /\ ~(along > 0 /\ At(0 - 1) # X)
       /\ ~(along + length < n /\ At(length) # X)
       /\ \A i \in 0..(length - 1) :
             IF At(i) = word[i + 1] THEN TRUE
             ELSE IF Occupied(At(i)) THEN FALSE
             ELSE Before(i) = X /\ After(i) = X
       /\ \/ \E i \in 0..(length - 1) : At(i) = word[i + 1]
          \/ \A i \in 0..(length - 1) : At(i) = X

\* place_word of generate_puzzles.py: writes the letters into the grid itself
place_word(g, word, row, col, direction) ==
    [r \in DOMAIN g |-> [c \in DOMAIN g[r] |->
        IF \E i \in 0..(Len(word) - 1) :
              r = CellRow(row, i, direction) /\ c = CellCol(col, i, direction)
        THEN word[(r - row) + (c - col) + 1]
        ELSE g[r][c]]]

\* list of (r, c, direction); the loops visit the positions in the order of
\* Positions: rows outside, columns inside, horizontal before vertical
find_placements(g, word, require_crossing, n) ==
    LET Fits(pos) ==
            /\ can_place(g, word, pos[1], pos[2], pos[3], n)
            /\ LET crosses == \E i \in 0..(Len(word) - 1) :
                                 g[CellRow(pos[1], i, pos[3])][CellCol(pos[2], i, pos[3])] # X
               IN ~require_crossing \/ crosses
    IN SelectSeq(Positions(word, HORIZONTAL, n) \o Positions(word, VERTICAL, n), Fits)

\* cells of a word record
EntryCells(entry) ==
    {<<CellRow(entry.row, i, entry.direction), CellCol(entry.col, i, entry.direction)>> :
        i \in 0..(Len(entry.word) - 1)}

validate_grid(g, list, n) ==
    LET covered == UNION {EntryCells(entry) : entry \in Members(list)}
    IN \A r \in Idx(n), c \in Idx(n) : g[r][c] # X => <<r, c>> \in covered

\* list.remove(w): the list without the first entry equal to w
Remove(list, w) ==
    LET k == CHOOSE j \in 1..Len(list) :
                 list[j] = w /\ \A i \in 1..(j - 1) : list[i] # w
    IN SubSeq(list, 1, k - 1) \o SubSeq(list, k + 1, Len(list))

ABBA == <<"A", "B", "B", "A">>
ABAB == <<"A", "B", "A", "B">>
BABA == <<"B", "A", "B", "A">>

\* the pools handed to generate_puzzle; the last one holds a text twice
GPPools == {<<ABBA, ABAB, AB, BB>>, <<BABA, BAB, BB>>, <<ABA, AB>>, <<ABBA, AB, ABBA>>}

InitGP ==
    /\ cfg = [name |-> "generate_puzzles"]
    /\ size = GenSize
    /\ word_pool \in GPPools
    /\ min_words \in {2, 3}
    /\ min_letters = 0
    /\ max_attempts = 2
    /\ gen_call = 0
    /\ attempt = 0
    /\ best = None
    /\ attempt_log = <<>>
    /\ not_retried = {}
    /\ best_score = 0
    /\ grid = empty_grid(size)
    /\ word_set = {}
    /\ placed = <<>>
    /\ remaining = <<>>
    /\ idx = 0
    /\ still_remaining = <<>>
    /\ pass_num = 0
    /\ emitted = NotEmitted
    /\ call = [op |-> "generate_puzzle"]
    /\ result = Pending
    /\ BuildersIdle
    /\ pc = "gp_attempt"

gpUnchanged == <<layoutVars, attempt_log, not_retried, cfgVars, word_pool, gen_call, word_set, remaining, idx,
                 still_remaining, pass_num, best, best_score, emitted, call>>

\* lines 139-167: new grid, shuffled copy of the pool, the first word placed
GPBeginAttempt ==
    /\ pc = "gp_attempt"
    /\ attempt < max_attempts
    /\ \E shuffled \in Shuffles(word_pool) :
        LET seeds == {k \in 1..Len(shuffled) :
                         Len(shuffled[k]) >= SEED_MIN_LEN /\ Len(shuffled[k]) <= size}
        IN IF seeds = {}
           THEN /\ grid' = empty_grid(size)
                /\ placed' = <<>>
                /\ pool' = shuffled
                /\ attempt' = attempt + 1
                /\ UNCHANGED <<failures, tried, pc>>
           ELSE LET first_word == shuffled[CHOOSE k \in seeds : \A j \in seeds : k <= j]
                    start_col == Max(0, (size - Len(first_word)) \div 2)
                    start_row == size \div 2
                IN /\ grid' = place_word(empty_grid(size), first_word, start_row,
                                         start_col, HORIZONTAL)
                   /\ placed' = <<[word |-> first_word, row |-> start_row,
                                   col |-> start_col, direction |-> HORIZONTAL]>>
                   /\ pool' = Remove(shuffled, first_word)
                   /\ failures' = 0
                   /\ tried' = {}
                   /\ pc' = "gp_while"
                   /\ UNCHANGED attempt
    /\ UNCHANGED <<gpUnchanged, result>>

\* a loop that gives up at the first word without a placement
GPLoopRunsFirstFailure ==
    Len(placed) < PLACED_CAP /\ failures < 1 /\ Len(pool) > 0

\* the condition of the while loop, line 168
GPLoopRuns == Len(placed) < PLACED_CAP /\ failures < Len(pool) /\ Len(pool) > 0

\* lines 168-184: one iteration of the while loop
GPWhileStep ==
    /\ pc = "gp_while"
    /\ GPLoopRuns
    /\ LET word == pool[(failures % Len(pool)) + 1]
       IN IF word \in tried
          THEN /\ failures' = failures + 1
               /\ UNCHANGED <<grid, placed, pool, tried>>
          ELSE LET placements == find_placements(grid, word, TRUE, size)
               IN IF placements # <<>>
                  THEN \E p \in Members(placements) :
                          /\ grid' = place_word(grid, word, p[1], p[2], p[3])
                          /\ placed' = Append(placed, [word |-> word, row |-> p[1],
                                                       col |-> p[2], direction |-> p[3]])
                          /\ pool' = Remove(pool, word)
                          /\ failures' = 0
                          /\ tried' = {}
                  ELSE /\ failures' = failures + 1
                       /\ tried' = tried \cup {word}
                       /\ UNCHANGED <<grid, placed, pool>>
    /\ UNCHANGED <<gpUnchanged, attempt, result, pc>>

\* lines 186-187: the loop is over; return the puzzle or go to the next attempt
GPEndAttempt ==
    /\ pc = "gp_while"
    /\ ~GPLoopRuns
    /\ IF Len(placed) >= min_words /\ validate_grid(grid, placed, size)
       THEN /\ result' = [ret |-> "puzzle", grid |-> grid, placed |-> placed]
            /\ pc' = "done"
            /\ UNCHANGED attempt
       ELSE /\ attempt' = attempt + 1
            /\ pc' = "gp_attempt"
            /\ UNCHANGED result
    /\ UNCHANGED <<gpUnchanged, gpVars, grid, placed>>

\* line 189: every attempt failed
GPReturnNone ==
    /\ pc = "gp_attempt"
    /\ attempt >= max_attempts
    /\ result' = None
    /\ pc' = "done"
    /\ UNCHANGED <<gpUnchanged, gpVars, attempt, grid, placed>>

NextGP == GPBeginAttempt \/ GPWhileStep \/ GPEndAttempt \/ GPReturnNone

--------------------------------------------------------------------------
(* build_puzzles.py: try_layout and build_puzzle over a plan (GRID_SIZE = size) *)

\* longest plan handed to try_layout / build_puzzle
MaxPlan == 2

\* The plan is a list the loop reads once, front to back: its entries
\* (word, row, col, direction) are drawn as the loop reaches them, and the
\* plan may end after any entry.
LayoutWords == {AB, BB}
PlanEntries == LayoutWords \X Idx(OpSize) \X Idx(OpSize) \X {HORIZONTAL, VERTICAL}

InitLayout ==
    /\ cfg = [name |-> "build_puzzles"]
    /\ size = OpSize
    /\ word_pool = <<>>
    /\ min_words = 0
    /\ min_letters = 0
    /\ max_attempts = 0
    /\ gen_call = 0
    /\ attempt = 0
    /\ best = None
    /\ attempt_log = <<>>
    /\ not_retried = {}
    /\ best_score = 0
    /\ grid = make_grid(size)
    /\ word_set = {}
    /\ placed = <<>>
    /\ remaining = <<>>
    /\ idx = 0
    /\ still_remaining = <<>>
    /\ pass_num = 0
    /\ emitted = NotEmitted
    /\ call \in {[op |-> "try_layout"], [op |-> "build_puzzle"]}
    /\ result = Pending
    /\ pool = <<>>
    /\ failures = 0
    /\ tried = {}
    /\ words = <<>>
    /\ pc = "plan_loop"

layoutUnchanged == <<gpVars, attempt_log, not_retried, cfgVars, word_pool, gen_call, attempt, placed, remaining,
                     still_remaining, pass_num, best, best_score, emitted, call>>

\* one iteration of `for word, row, col, direction in plan`: place_word, then
\* check_no_ghosts on the new grid; failed is what a rejected entry ends with
PlanStep(failed) ==
    /\ pc = "plan_loop"
    /\ idx < MaxPlan
    /\ \E entry \in PlanEntries :
       LET word == entry[1]
           new_grid == place_word_call(grid, word, entry[2], entry[3], entry[4], size)
       IN IF new_grid.ret = "IndexError"
          THEN /\ result' = [ret |-> "IndexError"]
               /\ pc' = "done"
               /\ UNCHANGED <<grid, word_set, words, idx>>
          ELSE IF new_grid.ret = "None"
          THEN /\ result' = failed
               /\ pc' = "done"
               /\ UNCHANGED <<grid, word_set, words, idx>>
          ELSE IF ~check_no_ghosts(new_grid.g, word_set \cup {word}, size).ok
          THEN /\ result' = failed
               /\ pc' = "done"
               /\ UNCHANGED <<grid, word_set, words, idx>>
          ELSE /\ grid' = new_grid.g
               /\ word_set' = word_set \cup {word}
               /\ words' = Append(words, [word |-> word, row |-> entry[2],
                                          col |-> entry[3], direction |-> entry[4]])
               /\ idx' = idx + 1
               /\ UNCHANGED <<result, pc>>
    /\ UNCHANGED layoutUnchanged

\* the plan is used up after idx entries: the final connectivity check
PlanEnd(failed) ==
    /\ pc = "plan_loop"
    /\ result' = IF check_connectivity(Mapped(words, AsPlacement))
                 THEN [ret |-> "puzzle", grid |-> grid, words |-> words]
                 ELSE failed
    /\ pc' = "done"
    /\ UNCHANGED <<layoutUnchanged, grid, word_set, words, idx>>

ValueError == [ret |-> "ValueError"]

\* try_layout, lines 503-513 and 514-516
TryLayoutStep == call.op = "try_layout" /\ PlanStep(None)
TryLayoutEnd == call.op = "try_layout" /\ PlanEnd(None)

\* build_puzzle, lines 130-147 and 149-157
BuildPuzzleStep == call.op = "build_puzzle" /\ PlanStep(ValueError)
BuildPuzzleEnd == call.op = "build_puzzle" /\ PlanEnd(ValueError)

NextLayout == TryLayoutStep \/ TryLayoutEnd \/ BuildPuzzleStep \/ BuildPuzzleEnd

--------------------------------------------------------------------------
(* The three builders side by side *)

InitBuild == Init \/ InitGP \/ InitLayout

NextBuild == Next \/ NextGP \/ NextLayout

SpecBuild == InitBuild /\ [][NextBuild]_vars

\* the control positions inside one build attempt, from the first committed
\* word to the attempt's end
InAttempt == pc \in {"for_pass", "for_word", "gp_while", "plan_loop"}

\* C8: within one build attempt of any of the three builders, a cell that
\* holds a letter holds the same letter after every step of the attempt.
C8_GridMonotone ==
    [][InAttempt =>
          \A r \in Idx(size), c \in Idx(size) :
              grid[r][c] # X => grid'[r][c] = grid[r][c]]_vars

\* a plan whose second word was committed across a letter of the first
C8_Witness ==
    /\ pc = "plan_loop"
    /\ Len(words) >= 2
    /\ EntryCells(words[1]) \cap EntryCells(words[2]) # {}
    /\ count_letters(grid) > Len(words[1].word)

--------------------------------------------------------------------------
(* Connectivity checks: auto_crossword.py, build_puzzles.py,
   validate_puzzles.py, redesign_puzzles.py, quick_validate.py *)

\* longest placement list handed to a connectivity check
MaxList == 3

\* a placement tuple as the word dict the scripts outside tools/wordle use
AsEntry(p) == [word |-> p[1], row |-> p[2], col |-> p[3], direction |-> p[4]]
\* a placement tuple as quick_validate writes it: (word, row, col, "H" / "V")
AsQVWord(p) == <<p[1], p[2], p[3], IF p[4] = HORIZONTAL THEN "H" ELSE "V">>

\* adj of the dict-based checks: i -> indices whose cell sets meet that of i
EntryAdj(list) ==
    [i \in 1..Len(list) |->
        {j \in 1..Len(list) : j # i /\ EntryCells(list[i]) \cap EntryCells(list[j]) # {}}]

\* cells_per[i] of quick_validate.check, lines 34-37
QVCells(p) ==
    {<<p[2] + (IF p[4] = "V" THEN j ELSE 0), p[3] + (IF p[4] = "H" THEN j ELSE 0)>> :
        j \in 0..(Len(p[1]) - 1)}
QVAdj(list) ==
    [i \in 1..Len(list) |->
        {j \in 1..Len(list) : j # i /\ QVCells(list[i]) \cap QVCells(list[j]) # {}}]

\* the queue loop over a dict adj: adj[n] of a key the dict lacks raises
RECURSIVE VisitAdj(_, _, _)
VisitAdj(adj, visited, queue) ==
    IF queue = <<>> THEN [exit |-> "end", visited |-> visited]
    ELSE IF Head(queue) \notin DOMAIN adj THEN [exit |-> "KeyError"]
    ELSE LET fresh == adj[Head(queue)] \ visited
         IN VisitAdj(adj, visited \cup fresh, Tail(queue) \o SetToList(fresh))

\* build_puzzles.check_connectivity, lines 74-100
bp_check_connectivity(list) ==
    IF Len(list) <= 1 THEN [ret |-> "bool", value |-> TRUE]
    ELSE LET walk == VisitAdj(EntryAdj(list), {1}, <<1>>)
         IN IF walk.exit = "KeyError" THEN [ret |-> "KeyError"]
            ELSE [ret |-> "bool", value |-> Cardinality(walk.visited) = Len(list)]

\* redesign_puzzles.check_connectivity, lines 57-80
rd_check_connectivity(list) ==
    IF Len(list) <= 1 THEN [ret |-> "bool", value |-> TRUE]
    ELSE LET walk == VisitAdj(EntryAdj(list), {1}, <<1>>)
         IN IF walk.exit = "KeyError" THEN [ret |-> "KeyError"]
            ELSE [ret |-> "bool", value |-> Cardinality(walk.visited) = Len(list)]

\* the words of list at the indices of S, in index order
RECURSIVE WordsAt(_, _)
WordsAt(list, S) ==
    IF S = {} THEN <<>>
    ELSE LET m == CHOOSE a \in S : \A b \in S : a <= b
         IN <<list[m].word>> \o WordsAt(list, S \ {m})

\* validate_puzzles.check_connectivity, lines 65-87: (ok, errors)
vp_check_connectivity(list) ==
    IF Len(list) <= 1 THEN [ret |-> "pair", ok |-> TRUE, errors |-> <<>>]
    ELSE LET walk == VisitAdj(EntryAdj(list), {1}, <<1>>)
         IN IF walk.exit = "KeyError" THEN [ret |-> "KeyError"]
            ELSE IF Cardinality(walk.visited) = Len(list)
            THEN [ret |-> "pair", ok |-> TRUE, errors |-> <<>>]
            ELSE [ret |-> "pair", ok |-> FALSE,
                  errors |-> << [connected |-> WordsAt(list, walk.visited),
                                 disconnected |->
                                     WordsAt(list, (1..Len(list)) \ walk.visited)] >>]

\* quick_validate.find_all_runs, lines 6-26: (text, row, col, "H" / "V")
QVRun(run) ==
    IF run[4] = HORIZONTAL THEN <<run[1], run[2], run[3], "H">>
    ELSE <<run[1], run[3], run[2], "V">>
qv_find_all_runs(g, n) ==
    Mapped(LinesFrom(g, 0, n, HORIZONTAL) \o LinesFrom(g, 0, n, VERTICAL), QVRun)

\* quick_validate.check, lines 28-56; the walk starts from vis = {0}, q = [0]
\* whatever the length of words
check(g, list, n) ==
    LET ws == {w[1] : w \in Members(list)}
        runs == qv_find_all_runs(g, n)
        ghosts == {k \in 1..Len(runs) : runs[k][1] \notin ws}
        walk == VisitAdj(QVAdj(list), {1}, <<1>>)
        grid_ok == /\ DOMAIN g = Idx(n)
                   /\ \A r \in DOMAIN g : DOMAIN g[r] = Idx(n)
    IN IF walk.exit = "KeyError" THEN [ret |-> "KeyError"]
       ELSE [ret |-> "bool",
             value |-> /\ ghosts = {}
                       /\ Cardinality(walk.visited) = Len(list)
                       /\ grid_ok]

\* the placements the lists under test are drawn from
ConnAnchors == (0..1) \X (0..2)
ConnPlacements ==
    {<<AB, rc[1], rc[2], HORIZONTAL>> : rc \in ConnAnchors}
    \cup {<<AB, rc[1], rc[2], VERTICAL>> : rc \in {a \in ConnAnchors : a[2] <= 1}}
    \cup {<<ABA, 0, 0, HORIZONTAL>>}
ConnLists == UNION {[1..k -> ConnPlacements] : k \in 0..MaxList}

\* the grid that holds the words of a list, written in list order
RECURSIVE GridOf(_, _, _)
GridOf(g, list, k) ==
    IF k > Len(list) THEN g
    ELSE GridOf(place_word(g, list[k][1], list[k][2], list[k][3], list[k][4]), list, k + 1)

ConnOps == {"auto_crossword.check_connectivity", "build_puzzles.check_connectivity",
            "validate_puzzles.check_connectivity", "redesign_puzzles.check_connectivity",
            "quick_validate.check"}

InitConn ==
    /\ SearchIdle
    /\ word_set = {}
    /\ size = OpSize + 1
    /\ \E list \in ConnLists, op \in ConnOps :
          /\ grid = GridOf(make_grid(size), list, 1)
          /\ call = [op |-> op,
                     words |-> IF op = "auto_crossword.check_connectivity" THEN list
                               ELSE IF op = "quick_validate.check"
                               THEN Mapped(list, AsQVWord)
                               ELSE Mapped(list, AsEntry)]
    /\ result = Pending
    /\ pc = "call"

AutoCheckConnectivityCall ==
    /\ pc = "call"
    /\ call.op = "auto_crossword.check_connectivity"
    /\ result' = [ret |-> "bool", value |-> check_connectivity(call.words)]
    /\ pc' = "returned"
    /\ UNCHANGED scanUnchanged

BuildCheckConnectivityCall ==
    /\ pc = "call"
    /\ call.op = "build_puzzles.check_connectivity"
    /\ result' = bp_check_connectivity(call.words)
    /\ pc' = "returned"
    /\ UNCHANGED scanUnchanged

ValidateCheckConnectivityCall ==
    /\ pc = "call"
    /\ call.op = "validate_puzzles.check_connectivity"
    /\ result' = vp_check_connectivity(call.words)
    /\ pc' = "returned"
    /\ UNCHANGED scanUnchanged

RedesignCheckConnectivityCall ==
    /\ pc = "call"
    /\ call.op = "redesign_puzzles.check_connectivity"
    /\ result' = rd_check_connectivity(call.words)
    /\ pc' = "returned"
    /\ UNCHANGED scanUnchanged

QuickValidateCheckCall ==
    /\ pc = "call"
    /\ call.op = "quick_validate.check"
    /\ result' = check(grid, call.words, size)
    /\ pc' = "returned"
    /\ UNCHANGED scanUnchanged

NextConn ==
    \/ AutoCheckConnectivityCall
    \/ BuildCheckConnectivityCall
    \/ ValidateCheckConnectivityCall
    \/ RedesignCheckConnectivityCall
    \/ QuickValidateCheckCall

SpecConn == InitConn /\ [][NextConn]_vars

\* the list under test as (word, row, col, direction) tuples
FromQVWord(w) == <<w[1], w[2], w[3], IF w[4] = "H" THEN HORIZONTAL ELSE VERTICAL>>
ListUnderTest ==
    IF call.op = "auto_crossword.check_connectivity" THEN call.words
    ELSE IF call.op = "quick_validate.check" THEN Mapped(call.words, FromQVWord)
    ELSE Mapped(call.words, AsPlacement)

\* the grid cell under letter i (0-based) of placement p
CellAt(p, i) == IF p[4] = HORIZONTAL THEN <<p[2], p[3] + i>> ELSE <<p[2] + i, p[3]>>
ShareCell(p, q) ==
    \E i \in 0..(Len(p[1]) - 1), j \in 0..(Len(q[1]) - 1) : CellAt(p, i) = CellAt(q, j)
\* two cells next to each other, along a side or across a corner
Touching(a, b) ==
    /\ a # b
    /\ a[1] - b[1] \in -1..1
    /\ a[2] - b[2] \in -1..1
TouchOnly(p, q) ==
    /\ ~ShareCell(p, q)
    /\ \E i \in 0..(Len(p[1]) - 1), j \in 0..(Len(q[1]) - 1) :
          Touching(CellAt(p, i), CellAt(q, j))

\* the indices reachable from S by chains of placements sharing a cell
RECURSIVE ReachableFrom(_, _)
ReachableFrom(list, S) ==
    LET T == S \cup {j \in 1..Len(list) : \E i \in S : ShareCell(list[i], list[j])}
    IN IF T = S THEN S ELSE ReachableFrom(list, T)
AllReachable(list) == ReachableFrom(list, {1}) = 1..Len(list)

\* what a finished check reported about connectivity
Answered == result.ret \in {"bool", "pair"}
Reported == IF result.ret = "pair" THEN result.ok ELSE result.value

CheckConnectivityOps == ConnOps \ {"quick_validate.check"}

\* C11: for a list of two or more placements check_connectivity returns
\* True exactly when every placement can be reached from the first one
\* through placements that share a grid cell with the previous one;
\* placements that only touch, side by side or at a corner, are not linked.
C11_ConnectivityOracle ==
    (pc = "returned" /\ call.op \in CheckConnectivityOps /\ Len(call.words) >= 2)
        => \A list \in {ListUnderTest} :
              /\ Answered
              /\ Reported = AllReachable(list)

\* three placements: the second crosses the first, the third only touches
\* the others, and the check answered False
C11_Witness ==
    /\ pc = "returned"
    /\ call.op \in {"auto_crossword.check_connectivity",
                    "validate_puzzles.check_connectivity"}
    /\ Len(call.words) = 3
    /\ \A list \in {ListUnderTest} :
          /\ ShareCell(list[1], list[2])
          /\ TouchOnly(list[1], list[3]) \/ TouchOnly(list[2], list[3])
          /\ ~ShareCell(list[1], list[3])
          /\ ~ShareCell(list[2], list[3])
    /\ Answered
    /\ Reported = FALSE

\* C12: every connectivity check reports a list of 0 or 1 placements as
\* connected and raises nothing; quick_validate.check, whose grid here holds
\* exactly the listed words, returns True.
C12_ShortListsConnected ==
    (pc = "returned" /\ call.op \in ConnOps /\ Len(call.words) <= 1)
        => /\ Answered
           /\ Reported = TRUE

--------------------------------------------------------------------------
(* Single calls of find_all_placements: auto_crossword.py *)

\* the word sets handed to find_all_placements
FindWordSets == {{AB}, {AB, BB, ABA}}

\* the grids handed to find_all_placements: empty, one word laid from the
\* top-left corner, or a second word laid anywhere over that one
SeededGrids(n) ==
    {out.g : out \in {o \in {try_place(make_grid(n), w, 0, 0, d, n) :
                                w \in OpWords, d \in {HORIZONTAL, VERTICAL}} :
                        o.ret = "grid"}}
FindGrids(n) ==
    {make_grid(n)} \cup SeededGrids(n) \cup
    {out.g : out \in {o \in {try_place(g1, w, rc[1], rc[2], d, n) :
                                g1 \in SeededGrids(n), w \in OpWords,
                                rc \in Idx(n) \X Idx(n),
                                d \in {HORIZONTAL, VERTICAL}} : o.ret = "grid"}}

InitFind ==
    /\ SearchIdle
    /\ size \in 1..OpSize
    /\ grid \in FindGrids(size)
    /\ word_set \in FindWordSets
    /\ \E w \in OpWords : call = [op |-> "find_all_placements", word |-> w]
    /\ result = Pending
    /\ pc = "call"

\* auto_crossword.find_all_placements(grid, word, word_set, size)
FindAllPlacementsCall ==
    /\ pc = "call"
    /\ call.op = "find_all_placements"
    /\ result' = [ret |-> "list",
                  placements |-> find_all_placements(grid, call.word, word_set, size)]
    /\ pc' = "returned"
    /\ UNCHANGED scanUnchanged

NextFind == FindAllPlacementsCall

SpecFind == InitFind /\ [][NextFind]_vars

\* the grid g with the letters of placement p written over it
Written(g, p) ==
    [r \in DOMAIN g |-> [c \in DOMAIN g[r] |->
        IF \E i \in 0..(Len(p[1]) - 1) : CellAt(p, i) = <<r, c>>
        THEN p[1][(CHOOSE i \in 0..(Len(p[1]) - 1) : CellAt(p, i) = <<r, c>>) + 1]
        ELSE g[r][c]]]

\* (a) every letter of p falls on a cell of the n x n grid
InsideGrid(p, n) ==
    \A i \in 0..(Len(p[1]) - 1) : CellAt(p, i)[1] \in Idx(n) /\ CellAt(p, i)[2] \in Idx(n)
\* (b) no letter of p meets a cell holding a different letter
NoConflict(g, p) ==
    \A i \in 0..(Len(p[1]) - 1) :
        g[CellAt(p, i)[1]][CellAt(p, i)[2]] \in {X, p[1][i + 1]}
\* (c) p covers a cell that already holds a letter
CoversLetter(g, p) ==
    \E i \in 0..(Len(p[1]) - 1) : g[CellAt(p, i)[1]][CellAt(p, i)[2]] # X
\* (d) every run of length >= 2 of the grid with p written is a listed word
RunsListed(g, p, ws, n) ==
    \A after \in {Written(g, p)} :
        \A run \in MaximalRuns(after, n) : RunText(after, run) \in ws \cup {p[1]}
EmptyGrid(g, n) == \A r \in Idx(n), c \in Idx(n) : g[r][c] = X

LegalPosition(g, p, ws, n) ==
    /\ InsideGrid(p, n)
    /\ NoConflict(g, p)
    /\ EmptyGrid(g, n) \/ CoversLetter(g, p)
    /\ RunsListed(g, p, ws, n)

\* every (row, col, orientation), one step beyond the grid on each side
AllPositions(n) == ((0 - 1)..n) \X ((0 - 1)..n) \X {HORIZONTAL, VERTICAL}
LegalPositions(g, w, ws, n) ==
    {pos \in AllPositions(n) : LegalPosition(g, <<w, pos[1], pos[2], pos[3]>>, ws, n)}

\* C13: find_all_placements returns exactly the positions where the word
\* stays inside the grid, meets no different letter, covers an occupied cell
\* (unless the grid is empty) and leaves every run of length >= 2 a word of
\* word_set or the word itself; each such position once, none other, each
\* with the grid that results from it.
C13_PlacementsSoundComplete ==
    (pc = "returned" /\ call.op = "find_all_placements")
        => \A got \in {result.placements} :
              /\ {<<e[1], e[2], e[3]>> : e \in Members(got)}
                    = LegalPositions(grid, call.word, word_set, size)
              /\ \A i, j \in 1..Len(got) :
                    (got[i][1] = got[j][1] /\ got[i][2] = got[j][2]
                        /\ got[i][3] = got[j][3]) => i = j
              /\ \A e \in Members(got) :
                    e[4] = Written(grid, <<call.word, e[1], e[2], e[3]>>)

\* a call on a grid with letters that returned a candidate, left out a
\* position that covers no letter, and left out a crossing that would form
\* an unlisted run
C13_Witness ==
    /\ pc = "returned"
    /\ call.op = "find_all_placements"
    /\ ~EmptyGrid(grid, size)
    /\ Len(result.placements) >= 1
    /\ \E pos \in AllPositions(size) :
          \A p \in {<<call.word, pos[1], pos[2], pos[3]>>} :
              /\ InsideGrid(p, size) /\ NoConflict(grid, p)
              /\ ~CoversLetter(grid, p)
              /\ RunsListed(grid, p, word_set, size)
    /\ \E pos \in AllPositions(size) :
          \A p \in {<<call.word, pos[1], pos[2], pos[3]>>} :
              /\ InsideGrid(p, size) /\ NoConflict(grid, p)
              /\ CoversLetter(grid, p)
              /\ ~RunsListed(grid, p, word_set, size)

--------------------------------------------------------------------------
(* What auto_crossword.generate_puzzle returns *)

\* generate_puzzle has returned and the driver holds its result
GenerateReturned == pc = "driver"

\* letters of a grid, counted cell by cell
LetterCells(g) == {rc \in (DOMAIN g) \X (DOMAIN g) : g[rc[1]][rc[2]] # X}
ScoreOf(puzzle) == 10 * Len(puzzle.placed) + Cardinality(LetterCells(puzzle.grid))

\* the scored attempts of this call that reached both thresholds
ReachedThresholds(a) == a.n_words >= min_words /\ a.n_letters >= min_letters

\* C14: generate_puzzle returns None whenever no attempt reached both
\* min_words placed words and min_letters letters (so for the one-word pool
\* with min_words 3), and any puzzle it returns has at least min_words
\* placements and at least min_letters letters in its grid.
C14_ThresholdFailure ==
    GenerateReturned =>
        /\ (\A k \in 1..Len(attempt_log) : ~ReachedThresholds(attempt_log[k]))
              => result = None
        /\ cfg.name = "single" => result = None
        /\ result # None =>
              /\ Len(result.placed) >= min_words
              /\ Cardinality(LetterCells(result.grid)) >= min_letters

\* the one-word pool: an attempt placed its single word, was scored, and the
\* call returned None
C14_Witness ==
    /\ GenerateReturned
    /\ cfg.name = "single"
    /\ Len(attempt_log) >= 1
    /\ attempt_log[1].n_words = 1
    /\ min_words = 3
    /\ result = None

\* C15: a returned puzzle scores (10 x words + letters) at least as much as
\* every attempt that was scored, reached both thresholds and was connected;
\* and an attempt that scores no more than the best so far leaves the best
\* as it is.
C15_BestAttemptKept ==
    /\ [](GenerateReturned /\ result # None =>
            \A k \in 1..Len(attempt_log) :
                (ReachedThresholds(attempt_log[k]) /\ attempt_log[k].connected)
                    => ScoreOf(result) >= attempt_log[k].score)
    /\ [][(Len(attempt_log') = Len(attempt_log) + 1 /\ best # None
              /\ attempt_log'[Len(attempt_log')].score <= ScoreOf(best))
            => best' = best]_vars

\* two attempts reached the thresholds with the same score on different
\* grids, and the first one was returned
C15_Witness ==
    /\ GenerateReturned
    /\ result # None
    /\ Len(attempt_log) = 2
    /\ \A k \in 1..2 : ReachedThresholds(attempt_log[k]) /\ attempt_log[k].connected
    /\ attempt_log[1].score = attempt_log[2].score
    /\ result.grid # grid

\* an attempt that scored more than the one before it was returned
C15_BetterReplaces ==
    /\ GenerateReturned
    /\ result # None
    /\ Len(attempt_log) = 2
    /\ \A k \in 1..2 : ReachedThresholds(attempt_log[k]) /\ attempt_log[k].connected
    /\ attempt_log[1].score < attempt_log[2].score
    /\ result.grid = grid

--------------------------------------------------------------------------
(* The search on the four-word pool KAFË, BUKË, UJË, DUA *)

\* grid size of the 7x7 days
ExampleSize == 7

KAFE == <<"K", "A", "F", "Ë">>
BUKE == <<"B", "U", "K", "Ë">>
UJE == <<"U", "J", "Ë">>
DUA == <<"D", "U", "A">>
ExampleWords == {KAFE, BUKE, UJE, DUA}

\* thresholds that the four words laid out together just reach
EXAMPLE_CONFIG ==
    [name |-> "example", size |-> ExampleSize, min_words |-> 4, min_letters |-> 11,
     attempts |-> 1, pool |-> <<KAFE, BUKE, UJE, DUA>>]

InitExample ==
    /\ cfg = EXAMPLE_CONFIG
    /\ SearchStart

SpecExample == InitExample /\ [][Next]_vars

\* the three passes of an attempt seeded with KAFË at row 3, column 1 are over
ExampleAttemptOver ==
    /\ cfg.name = "example"
    /\ pc = "for_pass"
    /\ pass_num >= PASSES
    /\ placed[1] = <<KAFE, 3, 1, HORIZONTAL>>

\* C17: on the pool KAFË, BUKË, UJË, DUA and a 7x7 grid, an attempt seeded
\* with KAFË horizontally at row 3, column 1 ends with exactly four placed
\* words, connected, and with exactly those four words as the grid's runs of
\* length >= 2, whatever the order of the other words and whichever legal
\* placement each growth step picks.
C17_ExampleFourWords ==
    ExampleAttemptOver =>
        /\ Len(placed) = 4
        /\ AllReachable(placed)
        /\ \A runs \in {MaximalRuns(grid, size)} :
              /\ Cardinality(runs) = 4
              /\ {RunText(grid, run) : run \in runs} = ExampleWords

--------------------------------------------------------------------------
(* Word texts of the committed placements *)

\* the text of an entry of placed: a (word, row, col, direction) tuple in
\* auto_crossword.py, a word dict in generate_puzzles.py
PlacedText(entry) == IF cfg.name = "generate_puzzles" THEN entry.word ELSE entry[1]

\* C18: in any attempt of either generate_puzzle no two committed placements
\* carry the same word text, also when the pool holds a text more than once.
C18_NoDuplicateWords ==
    \A i, j \in 1..Len(placed) :
        i # j => PlacedText(placed[i]) # PlacedText(placed[j])

\* C19: after the seed and after every committed placement of
\* auto_crossword.generate_puzzle every entry of placed is reachable from the
\* first one over shared cells, and check_connectivity(placed) was True for
\* every attempt that has been scored.
C19_SearchStaysConnected ==
    /\ placed # <<>> => AllReachable(placed)
    /\ \A k \in 1..Len(attempt_log) : attempt_log[k].connected

\* an attempt that committed at least two words after the seed was scored
C19_Witness ==
    /\ pc = "for_attempt"
    /\ Len(placed) >= 3
    /\ Len(attempt_log) >= 1
    /\ attempt_log[Len(attempt_log)].n_words = Len(placed)
    /\ attempt_log[Len(attempt_log)].connected

--------------------------------------------------------------------------
(* The passes of the growth phase *)

\* the loop over remaining has run out: the pass ends with the next step
PassOver == pc = "for_word" /\ idx >= Len(remaining)

\* C20: when a word is committed the pass starts over on the remaining
\* pool, so that at the end of a pass every word that found no legal
\* placement earlier in that pass has been tried again on the grid as it is
\* after the pass's latest commit.
C20_PassRestart == PassOver => not_retried = {}

--------------------------------------------------------------------------
(* The driver's second call *)

\* C21: a configuration is reported as failed only after a second call of
\* generate_puzzle, and the thresholds of that second call are relaxed: each
\* is at most the configuration's own min_words / min_letters.
C21_RelaxedRetry ==
    /\ emitted.status = "failed" => gen_call = 2
    /\ gen_call = 2 =>
          /\ min_words <= cfg.min_words
          /\ min_letters <= cfg.min_letters

\* generate_puzzle returned None although a scored attempt had placed a word
FailedWithPartial ==
    /\ GenerateReturned
    /\ \A k \in 1..Len(attempt_log) :
          ~meets_thresholds(attempt_log[k].n_words, attempt_log[k].n_letters,
                            attempt_log[k].connected)
    /\ \E k \in 1..Len(attempt_log) : attempt_log[k].n_words >= 1

\* C22: when no attempt meets the thresholds but some attempt placed a word,
\* what generate_puzzle hands back carries the best partial result: a grid
\* and a placement list whose score is the highest among the attempts.
C22_FailureCarriesBest ==
    FailedWithPartial =>
        /\ {"grid", "placed"} \subseteq DOMAIN result
        /\ \A k \in 1..Len(attempt_log) : ScoreOf(result) >= attempt_log[k].score

--------------------------------------------------------------------------
(* The in-place place_word of validate_puzzles.py, generate_new_puzzles.py
   and redesign_puzzles.py *)

\* place_word(grid, word, row, col, direction), GRID_SIZE = n: the loop writes
\* into the caller's list; ret is None at the end of the loop, or the raised
\* exception; caller is the caller's grid after the call
place_word_in_place(g0, word, row, col, direction, n) ==
    LET out == PlaceLoop(g0, word, 0, row, col, direction, n)
    IN CASE out.exit = "end" -> [ret |-> "None", caller |-> out.g]
         [] out.exit = "IndexError" -> [ret |-> "IndexError", caller |-> out.g]
         [] OTHER -> [ret |-> "ValueError", caller |-> out.g]

InitInPlace ==
    /\ SearchIdle
    /\ word_set = {}
    /\ size \in 1..OpSize
    /\ grid \in OneWordGrids(size)
    /\ \E w \in OpWords, r \in Anchors(size), c \in Anchors(size),
          d \in {HORIZONTAL, VERTICAL} :
          call = [op |-> "place_word_in_place", grid |-> grid, word |-> w,
                  row |-> r, col |-> c, direction |-> d]
    /\ result = Pending
    /\ pc = "call"

InPlaceWordCall ==
    /\ pc = "call"
    /\ call.op = "place_word_in_place"
    /\ LET out == place_word_in_place(grid, call.word, call.row, call.col,
                                      call.direction, size)
       IN /\ grid' = out.caller
          /\ result' = [ret |-> out.ret]
    /\ pc' = "returned"
    /\ UNCHANGED <<gpVars, layoutVars, attempt_log, not_retried, cfgVars, word_pool, gen_call,
                   attempt, word_set, placed, remaining, idx, still_remaining, pass_num,
                   best, best_score, emitted, call>>

NextInPlace == InPlaceWordCall

SpecInPlace == InitInPlace /\ [][NextInPlace]_vars

\* C23: when the in-place place_word raises ValueError, the grid equals its
\* value before the call: no letter of the rejected word stays written.
C23_FailedPlaceLeavesGrid ==
    (pc = "returned" /\ call.op = "place_word_in_place" /\ result.ret = "ValueError")
        => grid = call.grid

--------------------------------------------------------------------------
(* generate_puzzles.py: generate_puzzle on its own *)

SpecGP == InitGP /\ [][NextGP]_vars

\* the interpreter keeps executing the call: a statement of generate_puzzle
\* that can run does run
SpecGPFair == SpecGP /\ WF_vars(NextGP)

\* the while loop of lines 168-184 is at its condition and the condition is false
GPLoopExited == pc = "gp_while" /\ ~GPLoopRuns

\* no word still in the pool has a position accepted by find_placements
NoPoolWordFits ==
    \A k \in 1..Len(pool) : find_placements(grid, pool[k], TRUE, size) = <<>>

\* C24: every attempt's while loop eventually exits, and at the exit either
\* PLACED_CAP words are placed or no word still in the pool has any position
\* accepted by find_placements(require_crossing=True) on the final grid.
C24_GrowthLoopMaximal ==
    /\ [](GPLoopExited => (Len(placed) >= PLACED_CAP \/ NoPoolWordFits))
    /\ (pc = "gp_while") ~> GPLoopExited

\* the loop exited after a commit with words left in the pool, every one of
\* them rejected on the final grid
C24_Witness ==
    /\ GPLoopExited
    /\ Len(placed) >= 2
    /\ Len(pool) >= 1
    /\ failures = Len(pool)

\* the run (row, col, length, direction) that a word record claims
EntryRun(entry) == <<entry.row, entry.col, Len(entry.word), entry.direction>>

\* the record's cells are a maximal run of g and spell the record's word
MatchesRun(g, n, entry) ==
    /\ EntryRun(entry) \in MaximalRuns(g, n)
    /\ RunText(g, EntryRun(entry)) = entry.word

\* C25: in every puzzle returned by generate_puzzles.generate_puzzle each
\* listed word matches a maximal run of the final grid at its row, column and
\* orientation; none has been extended into a longer run by a later placement.
C25_ListedWordsAreRuns ==
    (pc = "done" /\ result # None) =>
        \A entry \in Members(result.placed) : MatchesRun(result.grid, size, entry)

\* a returned puzzle of three words
C25_Witness ==
    /\ pc = "done"
    /\ result # None
    /\ Len(result.placed) >= 3

--------------------------------------------------------------------------
(* The emitted word list after clean_placed_words *)

\* C27: every emitted puzzle lists at least min_words words, min_words being
\* the threshold of the generate_puzzle call that produced it, after
\* format_puzzle / clean_placed_words filtered the placement list.
C27_EmittedKeepsMinWords ==
    emitted.status = "puzzle" => Len(emitted.words) >= min_words

\* C28: in every emitted puzzle each maximal run of length >= 2 of the grid
\* starts at the row, column and orientation of an emitted word with the same
\* text, no two emitted words share a position, and every letter cell lies in
\* the cells of an emitted word.
C28_RunsAreEmittedWords ==
    emitted.status = "puzzle" =>
        /\ \A run \in MaximalRuns(emitted.grid, size) :
              \E w \in Members(emitted.words) :
                  EntryRun(w) = run /\ RunText(emitted.grid, run) = w.word
        /\ \A i, j \in 1..Len(emitted.words) :
              EntryRun(emitted.words[i]) = EntryRun(emitted.words[j]) => i = j
        /\ LetterCells(emitted.grid) \subseteq
              UNION {EntryCells(w) : w \in Members(emitted.words)}

--------------------------------------------------------------------------
(* The run scanners of the five scripts, one call each on the same grids *)

\* build_puzzles.find_all_runs(grid), GRID_SIZE = n: texts only
bp_find_all_runs(g, n) ==
    Mapped(LinesFrom(g, 0, n, HORIZONTAL) \o LinesFrom(g, 0, n, VERTICAL), Text)

\* redesign_puzzles.find_all_runs(grid): text/row/col/dir records (after a
\* variant that records a vertical run's column as its row)
RDRecordLineFirst(run) ==
    [text |-> run[1], row |-> run[2], col |-> run[3],
     dir |-> IF run[4] = HORIZONTAL THEN "H" ELSE "V"]
RDRecord(run) ==
    IF run[4] = HORIZONTAL
    THEN [text |-> run[1], row |-> run[2], col |-> run[3], dir |-> "H"]
    ELSE [text |-> run[1], row |-> run[3], col |-> run[2], dir |-> "V"]
rd_find_all_runs(g, n) ==
    Mapped(LinesFrom(g, 0, n, HORIZONTAL) \o LinesFrom(g, 0, n, VERTICAL), RDRecord)

RunsOps == {"auto_crossword.find_all_runs", "build_puzzles.find_all_runs",
            "validate_puzzles.find_all_runs", "redesign_puzzles.find_all_runs",
            "quick_validate.find_all_runs", "clean_placed_words.actual_runs"}

InitRuns ==
    /\ SearchIdle
    /\ word_set = {}
    /\ size \in 1..(OpSize + 1)
    /\ grid \in TwoWordGrids(size)
    /\ \E op \in RunsOps : call = [op |-> op, grid |-> grid]
    /\ result = Pending
    /\ pc = "call"

AutoCrosswordRunsCall ==
    /\ pc = "call"
    /\ call.op = "auto_crossword.find_all_runs"
    /\ result' = [ret |-> "list", runs |-> find_all_runs(grid, size)]
    /\ pc' = "returned"
    /\ UNCHANGED scanUnchanged

BuildPuzzlesRunsCall ==
    /\ pc = "call"
    /\ call.op = "build_puzzles.find_all_runs"
    /\ result' = [ret |-> "list", runs |-> bp_find_all_runs(grid, size)]
    /\ pc' = "returned"
    /\ UNCHANGED scanUnchanged

ValidatePuzzlesRunsCall ==
    /\ pc = "call"
    /\ call.op = "validate_puzzles.find_all_runs"
    /\ result' = [ret |-> "list", runs |-> find_all_runs_records(grid, size)]
    /\ pc' = "returned"
    /\ UNCHANGED scanUnchanged

RedesignPuzzlesRunsCall ==
    /\ pc = "call"
    /\ call.op = "redesign_puzzles.find_all_runs"
    /\ result' = [ret |-> "list", runs |-> rd_find_all_runs(grid, size)]
    /\ pc' = "returned"
    /\ UNCHANGED scanUnchanged

QuickValidateRunsCall ==
    /\ pc = "call"
    /\ call.op = "quick_validate.find_all_runs"
    /\ result' = [ret |-> "list", runs |-> qv_find_all_runs(grid, size)]
    /\ pc' = "returned"
    /\ UNCHANGED scanUnchanged

\* the two scanning loops of clean_placed_words, lines 219-242
CleanActualRunsCall ==
    /\ pc = "call"
    /\ call.op = "clean_placed_words.actual_runs"
    /\ result' = [ret |-> "set", runs |-> actual_runs(grid, size)]
    /\ pc' = "returned"
    /\ UNCHANGED scanUnchanged

NextRuns ==
    \/ AutoCrosswordRunsCall
    \/ BuildPuzzlesRunsCall
    \/ ValidatePuzzlesRunsCall
    \/ RedesignPuzzlesRunsCall
    \/ QuickValidateRunsCall
    \/ CleanActualRunsCall

SpecRuns == InitRuns /\ [][NextRuns]_vars

\* what the scanners report, brought to one form: the texts, and (text, row,
\* col, "H" / "V") where a scanner reports positions
RecordText(run) == run.text
RecordPlace(run) == <<run.text, run.row, run.col, run.dir>>
SetPlace(run) == <<run[1], run[2], run[3], IF run[4] = HORIZONTAL THEN "H" ELSE "V">>
ReportsRecords == {"validate_puzzles.find_all_runs", "redesign_puzzles.find_all_runs"}
ReportsTexts == {"auto_crossword.find_all_runs", "build_puzzles.find_all_runs"}

--------------------------------------------------------------------------
(* tools/zip/verify_puzzles.py: verify_puzzle *)

\* highest checkpoint number of a drawn checkpoint map, and the most
\* checkpoints it holds
MaxNumber == 3

Abs(a) == IF a >= 0 THEN a ELSE 0 - a
Min(a, b) == IF a <= b THEN a ELSE b

\* line 37: the key of a wall in wall_set (after a variant that keeps the
\* order in which the wall lists its two cells)
WallPairAsListed(idx1, idx2) == <<idx1, idx2>>
WallPair(idx1, idx2) == <<Min(idx1, idx2), Max(idx1, idx2)>>

\* lines 73-76: the numbers of the checkpoints met along path[k..]
RECURSIVE CpOrder(_, _, _)
CpOrder(path, checkpoints, k) ==
    IF k > Len(path) THEN <<>>
    ELSE (IF path[k] \in DOMAIN checkpoints THEN <<checkpoints[path[k]]>> ELSE <<>>)
         \o CpOrder(path, checkpoints, k + 1)

\* verify_puzzle(name, rows, cols, path, checkpoints, walls): errors holds the
\* kind of every message appended; checkpoints maps cell -> number with
\* distinct numbers, so cp_positions is its inverse
verify_puzzle(rows, cols, path, checkpoints, walls) ==
    LET total == rows * cols
        visited == Members(path)
        missing == (0..(total - 1)) \ visited
        wall_set == {WallPair(w[1] * cols + w[2], w[3] * cols + w[4]) : w \in Members(walls)}
        RowOf(c) == c \div cols
        ColOf(c) == c % cols
        dist(i) == Abs(RowOf(path[i]) - RowOf(path[i + 1]))
                   + Abs(ColOf(path[i]) - ColOf(path[i + 1]))
        values == {checkpoints[cell] : cell \in DOMAIN checkpoints}
        max_cp == CHOOSE m \in values : \A v \in values : v <= m
        cp_positions == [num \in values |->
                            CHOOSE cell \in DOMAIN checkpoints : checkpoints[cell] = num]
        first == path[1]
        last == path[Len(path)]
        errors ==
            (IF Len(path) # total THEN {"length"} ELSE {})
            \cup (IF Cardinality(visited) # Len(path) THEN {"repeated"} ELSE {})
            \cup (IF missing # {} THEN {"missing"} ELSE {})
            \cup (IF \E i \in 1..(Len(path) - 1) : dist(i) # 1
                  THEN {"not adjacent"} ELSE {})
            \cup (IF \E i \in 1..(Len(path) - 1) :
                        <<Min(path[i], path[i + 1]), Max(path[i], path[i + 1])>> \in wall_set
                  THEN {"crosses wall"} ELSE {})
            \cup (IF \E num \in values : cp_positions[num] \notin visited
                  THEN {"checkpoint not in path"} ELSE {})
            \cup (IF first # cp_positions[1] THEN {"start"} ELSE {})
            \cup (IF last # cp_positions[max_cp] THEN {"end"} ELSE {})
            \cup (IF CpOrder(path, checkpoints, 1) # SetToList(values)
                  THEN {"order"} ELSE {})
            \cup (IF total % 2 = 0
                     /\ (RowOf(first) + ColOf(first)) % 2 = (RowOf(last) + ColOf(last)) % 2
                  THEN {"parity"} ELSE {})
    IN IF path = <<>> THEN [ret |-> "IndexError"]
       ELSE [ret |-> "bool", ok |-> errors = {}, errors |-> errors]

\* the grids of the calls: rows x cols
ZipShapes == {<<1, 1>>, <<2, 1>>, <<1, 3>>, <<2, 2>>}

\* the paths of the calls: every list of rows * cols cells, and every list
\* one cell shorter
ZipPaths(total) ==
    [1..total -> 0..(total - 1)] \cup [1..(total - 1) -> 0..(total - 1)]

\* the checkpoint maps of the calls: cell -> number, numbers distinct, 1 among them
ZipCheckpoints(total) ==
    {f \in UNION {[S -> 1..MaxNumber] : S \in (SUBSET (0..(total - 1))) \ {{}}} :
        /\ \A a, b \in DOMAIN f : f[a] = f[b] => a = b
        /\ \E a \in DOMAIN f : f[a] = 1}

\* the wall lists of the calls: none, or one wall [r1, c1, r2, c2] between
\* two neighbouring cells, listed from either side
ZipWalls(rows, cols) ==
    {<<>>} \cup
    {<<w>> : w \in {v \in (0..(rows - 1)) \X (0..(cols - 1)) \X (0..(rows - 1)) \X (0..(cols - 1)) :
                      Abs(v[1] - v[3]) + Abs(v[2] - v[4]) = 1}}

InitZip ==
    /\ SearchIdle
    /\ word_set = {}
    /\ size = 1
    /\ grid = make_grid(size)
    /\ \E shape \in ZipShapes :
          \E path \in ZipPaths(shape[1] * shape[2]),
             checkpoints \in ZipCheckpoints(shape[1] * shape[2]),
             walls \in ZipWalls(shape[1], shape[2]) :
              call = [op |-> "verify_puzzle", rows |-> shape[1], cols |-> shape[2],
                      path |-> path, checkpoints |-> checkpoints, walls |-> walls]
    /\ result = Pending
    /\ pc = "call"

VerifyPuzzleCall ==
    /\ pc = "call"
    /\ call.op = "verify_puzzle"
    /\ result' = verify_puzzle(call.rows, call.cols, call.path, call.checkpoints, call.walls)
    /\ pc' = "returned"
    /\ UNCHANGED scanUnchanged

NextZip == VerifyPuzzleCall

SpecZip == InitZip /\ [][NextZip]_vars

\* what a solved Zip puzzle is, stated over coordinates (row, col)
ZipCells(rows, cols) == (0..(rows - 1)) \X (0..(cols - 1))
CoordOf(c, cols) == <<c \div cols, c % cols>>
\* the path visits every cell of the grid exactly once
VisitsAllOnce(rows, cols, path) ==
    /\ Len(path) = rows * cols
    /\ \A rc \in ZipCells(rows, cols) :
          Cardinality({k \in 1..Len(path) : path[k] \in 0..(rows * cols - 1)
                                             /\ CoordOf(path[k], cols) = rc}) = 1
Neighbours(a, b) ==
    \/ a[1] = b[1] /\ a[2] - b[2] \in {-1, 1}
    \/ a[2] = b[2] /\ a[1] - b[1] \in {-1, 1}
Walled(a, b, walls) ==
    \E w \in Members(walls) : {<<w[1], w[2]>>, <<w[3], w[4]>>} = {a, b}
StepsLegal(cols, path, walls) ==
    \A k \in 1..(Len(path) - 1) :
        /\ Neighbours(CoordOf(path[k], cols), CoordOf(path[k + 1], cols))
        /\ ~Walled(CoordOf(path[k], cols), CoordOf(path[k + 1], cols), walls)
\* the step at which the path is on the checkpoint numbered num
StepOf(path, checkpoints, num) ==
    {k \in 1..Len(path) : path[k] \in DOMAIN checkpoints /\ checkpoints[path[k]] = num}
CheckpointsInOrder(path, checkpoints) ==
    LET numbers == {checkpoints[c] : c \in DOMAIN checkpoints}
    IN /\ StepOf(path, checkpoints, 1) = {1}
       /\ \A num \in numbers :
             /\ StepOf(path, checkpoints, num) # {}
             /\ (\A other \in numbers : other <= num)
                   => StepOf(path, checkpoints, num) = {Len(path)}
             /\ \A other \in numbers :
                   other < num =>
                       \A i \in StepOf(path, checkpoints, other),
                          j \in StepOf(path, checkpoints, num) : i < j
ZipSolved(rows, cols, path, checkpoints, walls) ==
    /\ VisitsAllOnce(rows, cols, path)
    /\ StepsLegal(cols, path, walls)
    /\ CheckpointsInOrder(path, checkpoints)

\* C30: for a checkpoint map with distinct numbers that includes 1,
\* verify_puzzle returns True exactly when the path visits every cell once,
\* every step is between orthogonal neighbours with no listed wall between
\* them, the path starts at checkpoint 1, ends at the highest checkpoint and
\* meets the checkpoints in ascending order; the parity message is never
\* raised for such a path.
C30_ZipVerifier ==
    (pc = "returned" /\ call.op = "verify_puzzle") =>
        \A solved \in {ZipSolved(call.rows, call.cols, call.path,
                                 call.checkpoints, call.walls)} :
            /\ (result.ret = "bool" /\ result.ok) <=> solved
            /\ solved => "parity" \notin result.errors

\* a 2 x 2 puzzle with three checkpoints and a wall off the path, accepted
C30_Witness ==
    /\ pc = "returned"
    /\ call.op = "verify_puzzle"
    /\ call.rows * call.cols = 4
    /\ Cardinality(DOMAIN call.checkpoints) = 3
    /\ call.walls # <<>>
    /\ result.ret = "bool"
    /\ result.ok

====
